---- MODULE Spec2Model ----
(***************************************************************************)
(* Block adapters of the Warning / Success tools for Editor.js.            *)
(*                                                                         *)
(* Three adapter classes are modelled:                                     *)
(*   "Warning" : src/src/index.ts, class Warning (title + message,         *)
(*               honours readOnly, null-safe save)                         *)
(*   "Success" : src/src/index.js, class Success (title + message,         *)
(*               no readOnly, save dereferences the queried nodes)         *)
(*   "Typed"   : src/src/index.ts l.551-794, class Warning with a type     *)
(*               picker (type + message)                                   *)
(* The second copy of class Warning in index.ts (l.348-523) is the code of *)
(* the first.  The older class Warning of index.js (l.208-365) is the code *)
(* of Success under the class names cdx-warning*, and "Success" stands for *)
(* both.                                                                   *)
(*                                                                         *)
(* JavaScript values:                                                      *)
(*   - an object is a function whose DOMAIN is the set of its own keys;    *)
(*     reading an absent key yields Undefined;                             *)
(*   - an HTML string (title, message) is a sequence of tokens, a token    *)
(*     being one character or one character reference ("&amp;");          *)
(*   - type names, colours, class names and placeholders are strings;      *)
(*   - an optional reference (a node that may be null, an adapter that     *)
(*     may not exist) is a sequence of length 0 or 1.                      *)
(***************************************************************************)
EXTENDS Naturals, Sequences, FiniteSets, TLC

\* ------------------------------------------------------------------ bounds
\* longest HTML string supplied as saved data
MaxLen == 1
\* settings strips the host may hold at once
MaxStrips == 2

\* ------------------------------------------------------- JavaScript values
Undefined == "undefined"

EmptyObject == <<>>

\* obj[key] of JavaScript: undefined for a key the object does not own
Prop(obj, key) == IF key \in DOMAIN obj THEN obj[key] ELSE Undefined

\* `obj.key || dflt` for a string-valued property; empty is the falsy
\* string in the representation of that property (<<>> or "")
OrElse(obj, key, empty, dflt) ==
  IF key \in DOMAIN obj /\ obj[key] # empty THEN obj[key] ELSE dflt

SeqsUpTo(S, n) == UNION {[1..k -> S] : k \in 0..n}

\* ------------------------------------------------------------- DOM strings
\* Tokens of the HTML strings handed to the adapters.  No token is a letter,
\* "/", "!", "?" or "#", so "<" never opens a tag and a bare "&" never starts
\* a character reference: the HTML parser turns every token into one
\* character of a single text node.
Token == {"1", "&", "&amp;"}

\* what a user leaves in an editable region: nothing, or the text 1<
EditTexts == {<<>>, <<"1", "<">>}

\* HTML fragment serialisation of one character of a text node
Escape(c) ==
  CASE c = "&" -> "&amp;"
    [] c = "<" -> "&lt;"
    [] c = ">" -> "&gt;"
    [] OTHER -> c

\* HTML tokenizer, data state: one token to the character it denotes
Unescape(t) ==
  CASE t = "&amp;" -> "&"
    [] t = "&lt;" -> "<"
    [] t = "&gt;" -> ">"
    [] OTHER -> t

\* the setter of Element.innerHTML: parse the string into a text node
SetInnerHTML(html) == [i \in 1..Len(html) |-> Unescape(html[i])]

\* the getter of Element.innerHTML: serialise the text node
GetInnerHTML(text) == [i \in 1..Len(text) |-> Escape(text[i])]

\* the setter of HTMLElement.contentEditable applied to a boolean
SetContentEditable(b) == IF b THEN "true" ELSE "false"

\* the setter of a CSSStyleDeclaration property: the string "undefined" is
\* no colour and the declaration is left as it was
SetStyle(old, value) == IF value = Undefined THEN old ELSE value

\* ------------------------------------------------------------------- nodes
\* document.createElement + classList.add + attribute assignment
make(tagName, classNames, attributes) ==
  [ tag             |-> tagName,
    classes         |-> classNames,
    contentEditable |-> IF "contentEditable" \in DOMAIN attributes
                        THEN SetContentEditable(attributes.contentEditable)
                        ELSE "inherit",
    text            |-> IF "innerHTML" \in DOMAIN attributes
                        THEN SetInnerHTML(attributes.innerHTML)
                        ELSE <<>>,
    placeholder     |-> Undefined,
    backgroundColor |-> "",
    children        |-> <<>> ]

appendChild(parent, child) ==
  [parent EXCEPT !.children = Append(@, child)]

\* Element.querySelector("." + cls): the first matching descendant, if any
querySelector(el, cls) ==
  LET found == SelectSeq(el.children, LAMBDA c : cls \in c.classes)
  IN  IF found = <<>> THEN <<>> ELSE <<found[1]>>

\* the element without the children that carry one of the classes
Without(el, removed) ==
  [el EXCEPT !.children =
     SelectSeq(@, LAMBDA c : c.classes \cap removed = {})]

\* ---------------------------------------------------------------- host API
api ==
  [ styles |-> [ block                |-> "cdx-block",
                 input                |-> "cdx-input",
                 settingsButton       |-> "cdx-settings-button",
                 settingsButtonActive |-> "cdx-settings-button--active" ] ]

\* -------------------------------------------------- Warning (src/index.ts)
DEFAULT_TITLE_PLACEHOLDER == "Title"

DEFAULT_MESSAGE_PLACEHOLDER == "Message"

WarningCSS ==
  [ baseClass |-> api.styles.block,
    wrapper   |-> "cdx-warning",
    title     |-> "cdx-warning__title",
    input     |-> api.styles.input,
    message   |-> "cdx-warning__message" ]

WarningConstructor(a) ==
  << [ readOnly           |-> a.readOnly,
       titlePlaceholder   |->
         OrElse(a.config, "titlePlaceholder", "", DEFAULT_TITLE_PLACEHOLDER),
       messagePlaceholder |->
         OrElse(a.config, "messagePlaceholder", "", DEFAULT_MESSAGE_PLACEHOLDER),
       data               |-> [ title   |-> OrElse(a.data, "title", <<>>, <<>>),
                                message |-> OrElse(a.data, "message", <<>>, <<>>) ] ] >>

\* WarningRender consulting readOnly for the title only
WarningRenderMessageEditable(this) ==
  LET container == make("div", {WarningCSS.baseClass, WarningCSS.wrapper}, EmptyObject)
      title     == make("div", {WarningCSS.input, WarningCSS.title},
                        [ contentEditable |-> ~this.readOnly,
                          innerHTML       |-> this.data.title ])
      message   == make("div", {WarningCSS.input, WarningCSS.message},
                        [ contentEditable |-> TRUE,
                          innerHTML       |-> this.data.message ])
  IN  appendChild(
        appendChild(container,
                    [title EXCEPT !.placeholder = this.titlePlaceholder]),
        [message EXCEPT !.placeholder = this.messagePlaceholder])

WarningRender(this) ==
  LET container == make("div", {WarningCSS.baseClass, WarningCSS.wrapper}, EmptyObject)
      title     == make("div", {WarningCSS.input, WarningCSS.title},
                        [ contentEditable |-> ~this.readOnly,
                          innerHTML       |-> this.data.title ])
      message   == make("div", {WarningCSS.input, WarningCSS.message},
                        [ contentEditable |-> ~this.readOnly,
                          innerHTML       |-> this.data.message ])
  IN  appendChild(
        appendChild(container,
                    [title EXCEPT !.placeholder = this.titlePlaceholder]),
        [message EXCEPT !.placeholder = this.messagePlaceholder])

\* WarningSave querying the message node for both fields
WarningSaveSameNode(this, warningElement) ==
  LET title   == querySelector(warningElement, WarningCSS.message)
      message == querySelector(warningElement, WarningCSS.message)
      merged  == [ title   |-> IF title = <<>> THEN <<>>
                               ELSE GetInnerHTML(title[1].text),
                   message |-> IF message = <<>> THEN <<>>
                               ELSE GetInnerHTML(message[1].text) ]
  IN  [ threw |-> FALSE,
        this  |-> [this EXCEPT !.data = merged],
        ret   |-> <<merged>> ]

\* WarningSave returning a fresh object and leaving this.data alone
WarningSaveNoWrite(this, warningElement) ==
  LET title   == querySelector(warningElement, WarningCSS.title)
      message == querySelector(warningElement, WarningCSS.message)
      merged  == [ title   |-> IF title = <<>> THEN <<>>
                               ELSE GetInnerHTML(title[1].text),
                   message |-> IF message = <<>> THEN <<>>
                               ELSE GetInnerHTML(message[1].text) ]
  IN  [ threw |-> FALSE,
        this  |-> this,
        ret   |-> <<merged>> ]

\* [threw, this, ret]: Object.assign writes into this.data and returns it
WarningSave(this, warningElement) ==
  LET title   == querySelector(warningElement, WarningCSS.title)
      message == querySelector(warningElement, WarningCSS.message)
      merged  == [ title   |-> IF title = <<>> THEN <<>>
                               ELSE GetInnerHTML(title[1].text),
                   message |-> IF message = <<>> THEN <<>>
                               ELSE GetInnerHTML(message[1].text) ]
  IN  [ threw |-> FALSE,
        this  |-> [this EXCEPT !.data = merged],
        ret   |-> <<merged>> ]

\* -------------------------------------------------- Success (src/index.js)
SuccessCSS ==
  [ baseClass |-> api.styles.block,
    wrapper   |-> "cdx-success",
    title     |-> "cdx-success__title",
    input     |-> api.styles.input,
    message   |-> "cdx-success__message" ]

\* SuccessConstructor without the `|| ''` of the message: an absent message
\* stays undefined
SuccessConstructorNoDefault(a) ==
  << [ titlePlaceholder   |->
         OrElse(a.config, "titlePlaceholder", "", DEFAULT_TITLE_PLACEHOLDER),
       messagePlaceholder |->
         OrElse(a.config, "messagePlaceholder", "", DEFAULT_MESSAGE_PLACEHOLDER),
       data               |-> [ title   |-> OrElse(a.data, "title", <<>>, <<>>),
                                message |-> IF "message" \in DOMAIN a.data
                                            THEN a.data.message
                                            ELSE <<Undefined>> ] ] >>

\* the constructor destructures { data, config, api } only
SuccessConstructor(a) ==
  << [ titlePlaceholder   |->
         OrElse(a.config, "titlePlaceholder", "", DEFAULT_TITLE_PLACEHOLDER),
       messagePlaceholder |->
         OrElse(a.config, "messagePlaceholder", "", DEFAULT_MESSAGE_PLACEHOLDER),
       data               |-> [ title   |-> OrElse(a.data, "title", <<>>, <<>>),
                                message |-> OrElse(a.data, "message", <<>>, <<>>) ] ] >>

\* SuccessRender with the two dataset.placeholder assignments crossed
SuccessRenderCrossedPlaceholders(this) ==
  LET container == make("div", {SuccessCSS.baseClass, SuccessCSS.wrapper}, EmptyObject)
      title     == make("div", {SuccessCSS.input, SuccessCSS.title},
                        [ contentEditable |-> TRUE,
                          innerHTML       |-> this.data.title ])
      message   == make("div", {SuccessCSS.input, SuccessCSS.message},
                        [ contentEditable |-> TRUE,
                          innerHTML       |-> this.data.message ])
  IN  appendChild(
        appendChild(container,
                    [title EXCEPT !.placeholder = this.messagePlaceholder]),
        [message EXCEPT !.placeholder = this.titlePlaceholder])

SuccessRender(this) ==
  LET container == make("div", {SuccessCSS.baseClass, SuccessCSS.wrapper}, EmptyObject)
      title     == make("div", {SuccessCSS.input, SuccessCSS.title},
                        [ contentEditable |-> TRUE,
                          innerHTML       |-> this.data.title ])
      message   == make("div", {SuccessCSS.input, SuccessCSS.message},
                        [ contentEditable |-> TRUE,
                          innerHTML       |-> this.data.message ])
  IN  appendChild(
        appendChild(container,
                    [title EXCEPT !.placeholder = this.titlePlaceholder]),
        [message EXCEPT !.placeholder = this.messagePlaceholder])

\* title.innerHTML / message.innerHTML on a null node is a TypeError, raised
\* while the argument of Object.assign is built: this.data is not written
SuccessSave(this, successElement) ==
  LET title   == querySelector(successElement, SuccessCSS.title)
      message == querySelector(successElement, SuccessCSS.message)
  IN  IF title = <<>> \/ message = <<>>
      THEN [ threw |-> TRUE, this |-> this, ret |-> <<>> ]
      ELSE LET merged == [ title   |-> GetInnerHTML(title[1].text),
                           message |-> GetInnerHTML(message[1].text) ]
           IN  [ threw |-> FALSE,
                 this  |-> [this EXCEPT !.data = merged],
                 ret   |-> <<merged>> ]

\* ------------------------------- Warning with types (src/index.ts, l.551-)
TypeNames == {"info", "danger"}

\* Object.keys enumerates own string keys in insertion order
KeyOrder == <<"info", "danger">>

ObjectKeys(obj) == SelectSeq(KeyOrder, LAMBDA k : k \in DOMAIN obj)

wrapperForType(type) ==
  CASE type = "info"    -> "cdx-warning-info"
    [] type = "danger"  -> "cdx-warning-danger"
    [] type = Undefined -> "cdx-warning-undefined"

TypedCSS ==
  [ baseClass            |-> api.styles.block,
    settingsButton       |-> api.styles.settingsButton,
    settingsButtonActive |-> api.styles.settingsButtonActive,
    wrapper              |-> "cdx-warning",
    message              |-> "cdx-warning__message",
    settingsContainer    |-> "settingsButton-wrapper",
    title                |-> "title",
    background           |-> "bg" ]

\* TypedConstructor taking any supplied type: `data.type || defaultType`
TypedConstructorUnchecked(a) ==
  IF "typeColor" \notin DOMAIN a.config
  THEN <<>>
  ELSE << [ readOnly           |-> a.readOnly,
            messagePlaceholder |->
              OrElse(a.config, "messagePlaceholder", "", DEFAULT_MESSAGE_PLACEHOLDER),
            defaultType        |-> Prop(a.config, "defaultType"),
            config             |-> [ defaultType |-> Prop(a.config, "defaultType"),
                                     typeColor   |-> a.config.typeColor ],
            data               |->
              [ type    |-> IF "type" \in DOMAIN a.data
                            THEN a.data.type
                            ELSE Prop(a.config, "defaultType"),
                message |-> OrElse(a.data, "message", <<>>, <<>>) ] ] >>

\* Object.keys(undefined) is a TypeError: no instance comes to exist
TypedConstructor(a) ==
  IF "typeColor" \notin DOMAIN a.config
  THEN <<>>
  ELSE << [ readOnly           |-> a.readOnly,
            messagePlaceholder |->
              OrElse(a.config, "messagePlaceholder", "", DEFAULT_MESSAGE_PLACEHOLDER),
            defaultType        |-> Prop(a.config, "defaultType"),
            config             |-> [ defaultType |-> Prop(a.config, "defaultType"),
                                     typeColor   |-> a.config.typeColor ],
            data               |->
              [ type    |-> IF Prop(a.data, "type") \in DOMAIN a.config.typeColor
                            THEN a.data.type
                            ELSE Prop(a.config, "defaultType"),
                message |-> OrElse(a.data, "message", <<>>, <<>>) ] ] >>

\* TypedRender with an unconditionally editable message
TypedRenderAlwaysEditable(this) ==
  LET containerClasses == {TypedCSS.wrapper, wrapperForType(this.data.type)}
      messageEl  == make("div", {TypedCSS.message},
                         [ contentEditable |-> TRUE,
                           innerHTML       |-> this.data.message ])
      background == make("div", {TypedCSS.background}, EmptyObject)
      container  == make("div", containerClasses, EmptyObject)
      colorCode  == Prop(this.config.typeColor, this.data.type)
  IN  appendChild(
        appendChild(container,
                    IF this.data.type # Undefined
                    THEN [background EXCEPT
                            !.backgroundColor = SetStyle(@, colorCode)]
                    ELSE background),
        [messageEl EXCEPT !.placeholder = this.messagePlaceholder])

\* the returned node is this.container; its first child is this.background
TypedRender(this) ==
  LET containerClasses == {TypedCSS.wrapper, wrapperForType(this.data.type)}
      messageEl  == make("div", {TypedCSS.message},
                         [ contentEditable |-> ~this.readOnly,
                           innerHTML       |-> this.data.message ])
      background == make("div", {TypedCSS.background}, EmptyObject)
      container  == make("div", containerClasses, EmptyObject)
      colorCode  == Prop(this.config.typeColor, this.data.type)
  IN  appendChild(
        appendChild(container,
                    IF this.data.type # Undefined
                    THEN [background EXCEPT
                            !.backgroundColor = SetStyle(@, colorCode)]
                    ELSE background),
        [messageEl EXCEPT !.placeholder = this.messagePlaceholder])

\* the settings container: the title, then one button per key of typeColor
RECURSIVE SettingsButtons(_, _, _)
SettingsButtons(this, settingsContainer, keys) ==
  IF keys = <<>> THEN settingsContainer
  ELSE LET type == Head(keys)
           settingsButton ==
             make("div",
                  {TypedCSS.settingsButton, TypedCSS.wrapper, wrapperForType(type)},
                  [innerHTML |-> <<"A">>])
           highlighted ==
             IF this.data.type = type
             THEN [settingsButton EXCEPT
                     !.classes = @ \cup {TypedCSS.settingsButtonActive}]
             ELSE settingsButton
       IN  SettingsButtons(this, appendChild(settingsContainer, highlighted),
                           Tail(keys))

renderSettings(this) ==
  LET settingsContainer == make("div", {TypedCSS.settingsContainer}, EmptyObject)
      title == [make("div", {TypedCSS.title}, EmptyObject) EXCEPT
                  !.text = <<" Type", " ">>]
  IN  SettingsButtons(this, appendChild(settingsContainer, title),
                      ObjectKeys(this.config.typeColor))

\* the type a button's click listener closes over
ButtonType(this, i) == ObjectKeys(this.config.typeColor)[i - 1]

\* the forEach of _changeAlertType over a container that exists
RECURSIVE Restyle(_, _, _, _)
Restyle(container, keys, newType, typeColor) ==
  IF keys = <<>> THEN container
  ELSE LET type         == Head(keys)
           warningClass == wrapperForType(type)
           removed      == [container EXCEPT !.classes = @ \ {warningClass}]
           restyled     ==
             IF newType = type
             THEN [removed EXCEPT
                     !.classes = @ \cup {warningClass},
                     !.children[1].backgroundColor =
                        SetStyle(@, Prop(typeColor, type))]
             ELSE removed
       IN  Restyle(restyled, Tail(keys), newType, typeColor)

\* a type change that stores the new type only once the container has been
\* restyled
changeAlertTypeStoreLast(this, container, newType) ==
  LET saved == [this EXCEPT !.data.type = newType]
      keys  == ObjectKeys(this.config.typeColor)
  IN  IF keys # <<>> /\ container = <<>>
      THEN [ threw |-> TRUE, this |-> this, container |-> container ]
      ELSE [ threw     |-> FALSE,
             this      |-> saved,
             container |->
               IF container = <<>> THEN container
               ELSE <<Restyle(container[1], keys, newType,
                              this.config.typeColor)>> ]

\* [threw, this, container]: the type is stored first; reading classList of
\* an undefined this.container is a TypeError in the first iteration
changeAlertType(this, container, newType) ==
  LET saved == [this EXCEPT !.data.type = newType]
      keys  == ObjectKeys(this.config.typeColor)
  IN  IF keys # <<>> /\ container = <<>>
      THEN [ threw |-> TRUE, this |-> saved, container |-> container ]
      ELSE [ threw     |-> FALSE,
             this      |-> saved,
             container |->
               IF container = <<>> THEN container
               ELSE <<Restyle(container[1], keys, newType,
                              this.config.typeColor)>> ]

\* the rest of the click listener: un-highlight every button of this
\* settings container, then highlight the clicked one
Highlight(settingsContainer, i) ==
  [settingsContainer EXCEPT !.children =
     [j \in 1..Len(@) |->
        IF TypedCSS.settingsButton \in @[j].classes
        THEN [@[j] EXCEPT !.classes =
                IF j = i THEN @ \cup {TypedCSS.settingsButtonActive}
                ELSE @ \ {TypedCSS.settingsButtonActive}]
        ELSE @[j]]]

\* a save that writes the message it read into this.data, as the simple
\* classes do
TypedSaveWriteBack(this, warningElement) ==
  LET messageEl == querySelector(warningElement, TypedCSS.message)
  IN  IF messageEl = <<>>
      THEN [ threw |-> TRUE, this |-> this, ret |-> <<>> ]
      ELSE LET message == GetInnerHTML(messageEl[1].text)
           IN  [ threw |-> FALSE,
                 this  |-> [this EXCEPT !.data.message = message],
                 ret   |-> << [ type    |-> this.data.type,
                                 message |-> message ] >> ]

\* a save that reports the configured default type instead of the stored one
TypedSaveDefaultType(this, warningElement) ==
  LET messageEl == querySelector(warningElement, TypedCSS.message)
  IN  IF messageEl = <<>>
      THEN [ threw |-> TRUE, this |-> this, ret |-> <<>> ]
      ELSE [ threw |-> FALSE,
             this  |-> this,
             ret   |-> << [ type    |-> this.defaultType,
                             message |-> GetInnerHTML(messageEl[1].text) ] >> ]

\* messageEl.innerHTML on a null node is a TypeError; the spread copies
\* this.data into a fresh object and this.data is left alone
TypedSave(this, warningElement) ==
  LET messageEl == querySelector(warningElement, TypedCSS.message)
  IN  IF messageEl = <<>>
      THEN [ threw |-> TRUE, this |-> this, ret |-> <<>> ]
      ELSE [ threw |-> FALSE,
             this  |-> this,
             ret   |-> << [ type    |-> this.data.type,
                             message |-> GetInnerHTML(messageEl[1].text) ] >> ]

\* ---------------------------------------------------------------- dispatch
Variants == {"Warning", "Success", "Typed"}

Constructor(v, a) ==
  CASE v = "Warning" -> WarningConstructor(a)
    [] v = "Success" -> SuccessConstructor(a)
    [] v = "Typed"   -> TypedConstructor(a)

render(v, this) ==
  CASE v = "Warning" -> WarningRender(this)
    [] v = "Success" -> SuccessRender(this)
    [] v = "Typed"   -> TypedRender(this)

save(v, this, el) ==
  CASE v = "Warning" -> WarningSave(this, el)
    [] v = "Success" -> SuccessSave(this, el)
    [] v = "Typed"   -> TypedSave(this, el)

CSS(v) ==
  CASE v = "Warning" -> WarningCSS
    [] v = "Success" -> SuccessCSS
    [] v = "Typed"   -> TypedCSS

\* ------------------------------------------------------------------- state
VARIABLES
  variant,   \* the adapter class the host instantiates
  args,      \* the constructor payload { data, config, readOnly }
  adapter,   \* the adapter instance: <<>> before construction, else <<this>>
  element,   \* the block's element held by the host: <<>> before render
  strips,    \* the settings containers produced by renderSettings
  last       \* the last operation and its outcome

vars == <<variant, args, adapter, element, strips, last>>

Outcome(op, threw, ret, removed, sel, strip) ==
  [ op |-> op, threw |-> threw, ret |-> ret,
    removed |-> removed, sel |-> sel, strip |-> strip ]

Plain(op) == Outcome(op, FALSE, <<>>, {}, Undefined, 0)

\* ------------------------------------------------------------------ inputs
Contents == SeqsUpTo(Token, MaxLen)

Objects(keys, values) == UNION {[K -> values] : K \in SUBSET keys}

Optional(key, values) == {EmptyObject} \cup {key :> x : x \in values}

SimpleData == Objects({"title", "message"}, Contents)

SimpleConfig ==
  { EmptyObject,
    [titlePlaceholder |-> "Heads up", messagePlaceholder |-> "Details"],
    [titlePlaceholder |-> ""] }

TypedData ==
  {t @@ m : t \in Optional("type", TypeNames),
            m \in Optional("message", Contents)}

TypeColors ==
  { [info |-> "#eee"],
    [info |-> "#eee", danger |-> "#f00"] }

TypedConfig ==
  {c @@ d @@ p : c \in Optional("typeColor", TypeColors),
                 d \in Optional("defaultType", TypeNames),
                 p \in Optional("messagePlaceholder", {"Note"})}

Args(v) ==
  IF v = "Typed"
  THEN [data : TypedData, config : TypedConfig, readOnly : BOOLEAN]
  ELSE [data : SimpleData, config : SimpleConfig, readOnly : BOOLEAN]

\* the classes save looks for, which the element handed to save may lack
Markers(v) ==
  IF v = "Typed" THEN {TypedCSS.message}
  ELSE {CSS(v).title, CSS(v).message}

\* ----------------------------------------------------------------- actions
Init ==
  /\ variant \in Variants
  /\ args \in Args(variant)
  /\ adapter = <<>>
  /\ element = <<>>
  /\ strips = <<>>
  /\ last = Plain("init")

\* the host instantiates the block's adapter
Construct ==
  /\ last.op = "init"
  /\ adapter' = Constructor(variant, args)
  /\ last' = Outcome("construct", adapter' = <<>>, <<>>, {}, Undefined, 0)
  /\ UNCHANGED <<variant, args, element, strips>>

\* the host calls render and shows the returned element
Render ==
  /\ adapter # <<>>
  /\ element' = <<render(variant, adapter[1])>>
  /\ last' = Plain("render")
  /\ UNCHANGED <<variant, args, adapter, strips>>

\* the user retypes the content of an editable region
Edit ==
  /\ element # <<>>
  /\ \E i \in 1..Len(element[1].children), text \in EditTexts :
       /\ element[1].children[i].contentEditable = "true"
       /\ element[1].children[i].text # text
       /\ element' = <<[element[1] EXCEPT !.children[i].text = text]>>
  /\ last' = Plain("edit")
  /\ UNCHANGED <<variant, args, adapter, strips>>

\* the host calls save with the block's element, or with a structurally
\* damaged copy of it
Save ==
  /\ adapter # <<>>
  /\ element # <<>>
  /\ \E removed \in SUBSET Markers(variant) :
       LET r == save(variant, adapter[1], Without(element[1], removed))
       IN  /\ adapter' = <<r.this>>
           /\ last' = Outcome("save", r.threw, r.ret, removed, Undefined, 0)
  /\ UNCHANGED <<variant, args, element, strips>>

\* the host opens the block settings
RenderSettings ==
  /\ variant = "Typed"
  /\ adapter # <<>>
  /\ Len(strips) < MaxStrips
  /\ strips' = Append(strips, renderSettings(adapter[1]))
  /\ last' = Plain("renderSettings")
  /\ UNCHANGED <<variant, args, adapter, element>>

\* the user clicks a button of a settings container
Select ==
  /\ variant = "Typed"
  /\ adapter # <<>>
  /\ \E s \in 1..Len(strips) : \E i \in 1..Len(strips[s].children) :
       /\ TypedCSS.settingsButton \in strips[s].children[i].classes
       /\ LET type == ButtonType(adapter[1], i)
              r    == changeAlertType(adapter[1], element, type)
          IN  /\ adapter' = <<r.this>>
              /\ element' = r.container
              /\ strips' = IF r.threw THEN strips
                           ELSE [strips EXCEPT ![s] = Highlight(@, i)]
              /\ last' = Outcome("select", r.threw, <<>>, {}, type, s)
  /\ UNCHANGED <<variant, args>>

Next ==
  \/ Construct
  \/ Render
  \/ Edit
  \/ Save
  \/ RenderSettings
  \/ Select

Spec == Init /\ [][Next]_vars

\* ------------------------------------------------------------ claim helpers
IsSimple == variant \in {"Warning", "Success"}

IsTyped == variant = "Typed"

\* the region of the block's element that carries the class
Region(cls) == querySelector(element[1], cls)

\* non-empty title and message; for the typed adapter a type that is a key
\* of typeColor and a non-empty message
WellFormed ==
  IF IsTyped
  THEN /\ DOMAIN args.data = {"type", "message"}
       /\ "typeColor" \in DOMAIN args.config
       /\ args.data.type \in DOMAIN args.config.typeColor
       /\ args.data.message # <<>>
  ELSE /\ DOMAIN args.data = {"title", "message"}
       /\ args.data.title # <<>>
       /\ args.data.message # <<>>

\* no "&", "<" or ">" stands for itself in the string
Serialised(html) == \A i \in 1..Len(html) : html[i] \notin {"&", "<", ">"}

SerialisedData ==
  \A k \in DOMAIN args.data \cap {"title", "message"} : Serialised(args.data[k])

\* the step is a save of the element render has just returned, by an adapter
\* whose fields are still those the constructor set
SaveOfRendered ==
  /\ adapter = Constructor(variant, args)
  /\ adapter # <<>>
  /\ last.op = "render"
  /\ last'.op = "save"
  /\ last'.removed = {}

\* ------------------------------------------------------------------ claims
\* C1 as stated: for every well-formed data value (non-empty title and
\* message, or a type that is a key of typeColor and a non-empty message),
\* construct, render, save with no edit in between returns the data supplied.
C1_RoundTripAnyWellFormed ==
  [][(WellFormed /\ SaveOfRendered)
       => (~last'.threw /\ last'.ret = <<args.data>>)]_vars

\* C1 as amended: the round trip returns the data supplied whenever the data
\* is well-formed and its title and message are serialised HTML text, every
\* "&", "<" and ">" written as a character reference.
C1_RoundTripSerialised ==
  [][(WellFormed /\ SerialisedData /\ SaveOfRendered)
       => (~last'.threw /\ last'.ret = <<args.data>>)]_vars

C1_Witness ==
  /\ WellFormed
  /\ SerialisedData
  /\ args.data.message = <<"&amp;">>
  /\ last.op = "save"
  /\ last.removed = {}
  /\ element = <<render(variant, adapter[1])>>
  /\ last.ret = <<args.data>>

\* C2: after the typed constructor, the type is data.type when data.type is
\* a key of config.typeColor, and config.defaultType otherwise (an absent
\* type included).
C2_ResolvedType ==
  (IsTyped /\ last.op = "construct" /\ adapter # <<>>) =>
    LET keys == DOMAIN args.config.typeColor
        recognised == "type" \in DOMAIN args.data /\ args.data.type \in keys
    IN  /\ recognised => adapter[1].data.type = args.data.type
        /\ ~recognised =>
             adapter[1].data.type = Prop(args.config, "defaultType")

C2_Witness ==
  /\ IsTyped
  /\ last.op = "construct"
  /\ adapter # <<>>
  /\ Prop(args.data, "type") = "danger"
  /\ DOMAIN args.config.typeColor = {"info"}
  /\ Prop(args.config, "defaultType") = "info"
  /\ adapter[1].data.type = "info"

\* C3 as stated: in every reachable state of the typed adapter, the type is
\* a key of the configured typeColor.
C3_TypeIsKey ==
  (IsTyped /\ adapter # <<>>) =>
    adapter[1].data.type \in DOMAIN adapter[1].config.typeColor

\* the controls of a settings container that carry the active marker
ActiveButtons(settingsContainer) ==
  {i \in 1..Len(settingsContainer.children) :
     TypedCSS.settingsButtonActive \in settingsContainer.children[i].classes}

\* C4 as stated: once rendered, selecting the control of type B while the
\* type is A, A # B, leaves type B, a container without A's modifier class
\* and with B's, the background colour typeColor[B], and exactly one active
\* control in the strip, B's.
C4_TypeSwitch ==
  [][(/\ IsTyped
      /\ adapter # <<>>
      /\ element # <<>>
      /\ last'.op = "select"
      /\ last'.sel # adapter[1].data.type)
       => LET A == adapter[1].data.type
              B == last'.sel
              strip == strips'[last'.strip]
          IN  /\ ~last'.threw
              /\ adapter'[1].data.type = B
              /\ wrapperForType(A) \notin element'[1].classes
              /\ wrapperForType(B) \in element'[1].classes
              /\ element'[1].children[1].backgroundColor =
                   adapter[1].config.typeColor[B]
              /\ \A i \in ActiveButtons(strip) : ButtonType(adapter[1], i) = B
              /\ Cardinality(ActiveButtons(strip)) = 1]_vars

\* C5 as stated: save of a simple adapter (Warning, Success) never throws
\* and returns both title and message, a field whose node is missing from
\* the element being the empty string.
C5_SimpleSaveTotal ==
  (IsSimple /\ last.op = "save") =>
    /\ ~last.threw
    /\ last.ret # <<>>
    /\ DOMAIN last.ret[1] = {"title", "message"}
    /\ CSS(variant).title \in last.removed => last.ret[1].title = <<>>
    /\ CSS(variant).message \in last.removed => last.ret[1].message = <<>>

\* C6 as stated: save of the typed adapter never throws and returns type and
\* message, the message being the empty string when the element has no
\* message node.
C6_TypedSaveTotal ==
  (IsTyped /\ last.op = "save") =>
    /\ ~last.threw
    /\ last.ret # <<>>
    /\ DOMAIN last.ret[1] = {"type", "message"}
    /\ TypedCSS.message \in last.removed => last.ret[1].message = <<>>

Editable(region) == region # <<>> /\ region[1].contentEditable = "true"

NonEditable(region) == region # <<>> /\ region[1].contentEditable = "false"

\* C7 as stated: a simple adapter (Warning, Success) constructed with the
\* read-only flag renders a title and a message that are both non-editable;
\* without the flag both are editable.
C7_SimpleReadOnly ==
  (IsSimple /\ element # <<>>) =>
    IF args.readOnly
    THEN /\ NonEditable(Region(CSS(variant).title))
         /\ NonEditable(Region(CSS(variant).message))
    ELSE /\ Editable(Region(CSS(variant).title))
         /\ Editable(Region(CSS(variant).message))

\* C7 as amended: the Warning adapter renders both regions non-editable with
\* the read-only flag and editable without it; the Success adapter does not
\* read the flag and renders both regions editable in either case.
C7_WarningReadOnly ==
  (IsSimple /\ element # <<>>) =>
    IF variant = "Warning" /\ args.readOnly
    THEN /\ NonEditable(Region(CSS(variant).title))
         /\ NonEditable(Region(CSS(variant).message))
    ELSE /\ Editable(Region(CSS(variant).title))
         /\ Editable(Region(CSS(variant).message))

C7_Witness ==
  /\ variant = "Warning"
  /\ args.readOnly
  /\ last.op = "render"
  /\ NonEditable(Region(WarningCSS.title))
  /\ NonEditable(Region(WarningCSS.message))

\* C8 as stated: the message region the typed adapter renders is editable
\* whether the read-only flag is set or not.
C8_TypedAlwaysEditable ==
  (IsTyped /\ element # <<>>) => Editable(Region(TypedCSS.message))

\* C8 as amended: the message region the typed adapter renders is editable
\* exactly when the read-only flag is unset.
C8_TypedReadOnly ==
  (IsTyped /\ element # <<>>) =>
    IF args.readOnly
    THEN NonEditable(Region(TypedCSS.message))
    ELSE Editable(Region(TypedCSS.message))

C8_Witness ==
  /\ IsTyped
  /\ args.readOnly
  /\ last.op = "render"
  /\ NonEditable(Region(TypedCSS.message))

\* C9: after a simple constructor, a field missing from the supplied data is
\* the empty string and a supplied non-empty field is the supplied string.
C9_SimpleDefaults ==
  (IsSimple /\ last.op = "construct") =>
    /\ adapter # <<>>
    /\ DOMAIN adapter[1].data = {"title", "message"}
    /\ \A k \in {"title", "message"} :
         /\ k \notin DOMAIN args.data => adapter[1].data[k] = <<>>
         /\ (k \in DOMAIN args.data /\ args.data[k] # <<>>)
              => adapter[1].data[k] = args.data[k]

C9_Witness ==
  /\ IsSimple
  /\ last.op = "construct"
  /\ DOMAIN args.data = {"title"}
  /\ args.data.title = <<"&">>
  /\ adapter[1].data = [title |-> <<"&">>, message |-> <<>>]

\* C10 as stated: constructing an adapter of any class never raises, for any
\* saved data and any configuration object.
C10_ConstructNeverThrows ==
  last.op = "construct" => (~last.threw /\ adapter # <<>>)

\* the element render returns for the adapter as the constructor leaves it
FreshElement == render(variant, Constructor(variant, args)[1])

\* a save of the whole element on an adapter constructed with data = {}
SavedFreshEmpty ==
  /\ args.data = EmptyObject
  /\ last.op = "save"
  /\ last.removed = {}
  /\ element = <<FreshElement>>

\* C11 as stated: the title region of a simple adapter carries
\* config.titlePlaceholder when the option is supplied and "Title" otherwise,
\* the message region config.messagePlaceholder when supplied and "Message"
\* otherwise; with data = {} a save of the freshly rendered element returns
\* { title: "", message: "" }.
C11_PlaceholderWhenSupplied ==
  IsSimple =>
    /\ element # <<>> =>
         /\ Region(CSS(variant).title) # <<>>
         /\ Region(CSS(variant).title)[1].placeholder =
              IF "titlePlaceholder" \in DOMAIN args.config
              THEN args.config.titlePlaceholder
              ELSE "Title"
         /\ Region(CSS(variant).message) # <<>>
         /\ Region(CSS(variant).message)[1].placeholder =
              IF "messagePlaceholder" \in DOMAIN args.config
              THEN args.config.messagePlaceholder
              ELSE "Message"
    /\ SavedFreshEmpty =>
         (~last.threw /\ last.ret = <<[title |-> <<>>, message |-> <<>>]>>)

\* C11 as amended: the title region carries config.titlePlaceholder when
\* the option is supplied and is not the empty string, and "Title" otherwise
\* (also for a supplied ""); likewise the message region with
\* config.messagePlaceholder and "Message"; with data = {} a save of the
\* freshly rendered element returns { title: "", message: "" }.
C11_PlaceholderWhenNonEmpty ==
  IsSimple =>
    /\ element # <<>> =>
         /\ Region(CSS(variant).title) # <<>>
         /\ Region(CSS(variant).title)[1].placeholder =
              IF /\ "titlePlaceholder" \in DOMAIN args.config
                 /\ args.config.titlePlaceholder # ""
              THEN args.config.titlePlaceholder
              ELSE "Title"
         /\ Region(CSS(variant).message) # <<>>
         /\ Region(CSS(variant).message)[1].placeholder =
              IF /\ "messagePlaceholder" \in DOMAIN args.config
                 /\ args.config.messagePlaceholder # ""
              THEN args.config.messagePlaceholder
              ELSE "Message"
    /\ SavedFreshEmpty =>
         (~last.threw /\ last.ret = <<[title |-> <<>>, message |-> <<>>]>>)

C11_Witness ==
  /\ IsSimple
  /\ SavedFreshEmpty
  /\ args.config = [titlePlaceholder |-> "Heads up", messagePlaceholder |-> "Details"]
  /\ Region(CSS(variant).title)[1].placeholder = "Heads up"
  /\ Region(CSS(variant).message)[1].placeholder = "Details"
  /\ last.ret = <<[title |-> <<>>, message |-> <<>>]>>

\* C12 as stated: after any sequence of render, renderSettings and type
\* selections, every settings strip has exactly one control carrying the
\* active marker, the control of the adapter's current type.
C12_SingleActive ==
  (IsTyped /\ adapter # <<>>) =>
    \A s \in 1..Len(strips) :
      /\ Cardinality(ActiveButtons(strips[s])) = 1
      /\ \A i \in ActiveButtons(strips[s]) :
           ButtonType(adapter[1], i) = adapter[1].data.type

\* C13: in the typed variant every save step leaves the internal type as it
\* was, and a save that returns yields the type held in internal state at the
\* time of the call together with the message read from the element, and
\* nothing else.
C13_TypedSaveCarriesType ==
  [][(IsTyped /\ last'.op = "save")
       => /\ adapter'[1].data.type = adapter[1].data.type
          /\ ~last'.threw =>
               /\ DOMAIN last'.ret[1] = {"type", "message"}
               /\ last'.ret[1].type = adapter[1].data.type
               /\ last'.ret[1].message =
                    GetInnerHTML(Region(TypedCSS.message)[1].text)]_vars

\* a save after a selection: the type returned is the selected one, not the
\* constructed one, and the message returned is not the stored one
C13_Witness ==
  /\ IsTyped
  /\ last.op = "save"
  /\ ~last.threw
  /\ last.ret[1].type = adapter[1].data.type
  /\ last.ret[1].type # Constructor(variant, args)[1].data.type
  /\ last.ret[1].type # adapter[1].defaultType
  /\ last.ret[1].message # adapter[1].data.message

\* the type modifier classes a container can carry
TypeModifiers == {wrapperForType(t) : t \in TypeNames \cup {Undefined}}

\* C14 as stated: after render and any sequence of type selections, the most
\* recently rendered container carries exactly one type modifier class, the
\* one derived from the adapter's current type, and the colour of the
\* background element is typeColor[current type].
C14_ViewMatchesType ==
  (IsTyped /\ element # <<>>) =>
    /\ element[1].classes \cap TypeModifiers =
         {wrapperForType(adapter[1].data.type)}
    /\ Region(TypedCSS.background)[1].backgroundColor =
         Prop(adapter[1].config.typeColor, adapter[1].data.type)

\* the innerHTML of the region of the element the step leaves behind
ContentAfter(cls) == GetInnerHTML(querySelector(element'[1], cls)[1].text)

\* C15: in the simple variants a save that returns leaves the adapter's data
\* equal to the values returned, which are serialised HTML; no other step
\* changes the adapter, render included; and a render over serialised data,
\* which the data is from the first save on, produces regions whose content
\* is that title and message.
C15_SimpleSaveWritesBack ==
  [][(IsSimple /\ adapter # <<>>)
       => /\ (last'.op = "save" /\ ~last'.threw) =>
               /\ adapter'[1].data = last'.ret[1]
               /\ Serialised(last'.ret[1].title)
               /\ Serialised(last'.ret[1].message)
          /\ (last'.op # "save" \/ last'.threw) => adapter' = adapter
          /\ last'.op = "render" =>
               /\ Serialised(adapter[1].data.title) =>
                    ContentAfter(CSS(variant).title) = adapter[1].data.title
               /\ Serialised(adapter[1].data.message) =>
                    ContentAfter(CSS(variant).message) = adapter[1].data.message]_vars

\* a render after a save that changed the data: the regions show what was
\* saved, not what was given at construction
C15_Witness ==
  /\ IsSimple
  /\ last.op = "render"
  /\ adapter[1].data # Constructor(variant, args)[1].data
  /\ adapter[1].data.title = <<"1", "&lt;">>
  /\ GetInnerHTML(Region(CSS(variant).title)[1].text) = adapter[1].data.title
  /\ GetInnerHTML(Region(CSS(variant).message)[1].text) = adapter[1].data.message

\* the message the typed constructor stored
ConstructedMessage == OrElse(args.data, "message", <<>>, <<>>)

\* C16: in the typed variant the stored message is, after any sequence of
\* edits, saves and selections, the message given at construction, and the
\* message region render produces has that message as its content.
C16_TypedMessageKept ==
  (IsTyped /\ adapter # <<>>) =>
    /\ adapter[1].data.message = ConstructedMessage
    /\ last.op = "render" =>
         Region(TypedCSS.message)[1].text = SetInnerHTML(ConstructedMessage)

\* a save has returned a message that is not the stored one
C16_Witness ==
  /\ IsTyped
  /\ last.op = "save"
  /\ ~last.threw
  /\ last.ret[1].message = <<"1", "&lt;">>
  /\ adapter[1].data.message # last.ret[1].message
  /\ adapter[1].data.message = ConstructedMessage

\* C17 as stated: a type selection made before render has ever been called
\* fails, and whenever a type selection fails the adapter's internal type is
\* left unchanged.
C17_FailedSelectKeepsType ==
  [][(IsTyped /\ last'.op = "select")
       => /\ element = <<>> => last'.threw
          /\ last'.threw => adapter'[1].data.type = adapter[1].data.type]_vars

\* C17 as amended: a type selection fails exactly when render has not been
\* called yet; a selection that fails has already stored the selected type
\* as the adapter's internal type, and leaves the strips unmarked and the
\* container absent.
C17_FailedSelectStoresType ==
  [][(IsTyped /\ last'.op = "select")
       => /\ last'.threw <=> element = <<>>
          /\ adapter'[1].data.type = last'.sel
          /\ last'.threw => (strips' = strips /\ element' = <<>>)]_vars

\* a selection before render has failed and the internal type is the
\* selected one, not the constructed one
C17_Witness ==
  /\ IsTyped
  /\ last.op = "select"
  /\ last.threw
  /\ element = <<>>
  /\ adapter[1].data.type = last.sel
  /\ adapter[1].data.type # Constructor(variant, args)[1].data.type
  /\ Constructor(variant, args)[1].data.type \in DOMAIN args.config.typeColor
====
